---- MODULE Spec2Model ----
(***************************************************************************)
(* Model of explainer.py: the module-level credential check, main,         *)
(* process_presentation, extract_text_from_slide, get_explanation and      *)
(* save_explanations.                                                      *)
(*                                                                         *)
(* A Python str is modelled as a sequence of fragments.  A fragment is     *)
(* either the whitespace character " " or a piece of text without leading  *)
(* or trailing whitespace (a character of slide text, or a literal of the  *)
(* program).  Concatenation is \o and str.strip() is Strip.                *)
(***************************************************************************)
EXTENDS Integers, Sequences, FiniteSets, TLC

(* Largest number of slides of an input document. *)
MaxSlides == 4

(* Largest number of slides of an input document in the runs checked for  *)
(* termination.                                                            *)
MaxLiveSlides == 3

(* Largest number of slides of an input document when the program is run   *)
(* again on the same path, and the runs made on it.                        *)
MaxRerunSlides == 1
Runs == <<"first", "second">>

(***************************************************************************)
(* Program constants                                                       *)
(***************************************************************************)
retriesOneMore == 5 + 1

retries == 5
InitialDelay == 1
DelayCeiling == 60
RateLimitWaitTwoMinutes == 2 * 60

RateLimitWait == 60
PaceEvery == 3
PaceLong == 60
PaceShort == 20

None == [none |-> TRUE]

ExhaustedMessage ==
    <<"Failed to get explanation after several retries due to rate limits.">>

ErrorMessageWithoutDescription(description) == <<"Error processing slide:", " ">>

ErrorMessage(description) == <<"Error processing slide:", " ">> \o description

(***************************************************************************)
(* str.strip()                                                             *)
(***************************************************************************)
IsSpace(c) == c = " "

RECURSIVE LStrip(_)
LStrip(s) ==
    IF s = <<>> THEN <<>>
    ELSE IF IsSpace(Head(s)) THEN LStrip(Tail(s)) ELSE s

RECURSIVE RStrip(_)
RStrip(s) ==
    IF s = <<>> THEN <<>>
    ELSE IF IsSpace(s[Len(s)]) THEN RStrip(SubSeq(s, 1, Len(s) - 1)) ELSE s

Strip(s) == RStrip(LStrip(s))

(***************************************************************************)
(* The input document.  A shape is a record; hasattr(shape, "text") is     *)
(* "text" \in DOMAIN shape.  A slide is its sequence of shapes.            *)
(***************************************************************************)
Picture == [name |-> "Picture"]
TextBox(s) == [name |-> "TextBox", text |-> s]

HasAttr(shape, attr) == attr \in DOMAIN shape

RECURSIVE ConcatShapes(_, _)
ConcatShapes(shapes, text) ==
    IF shapes = <<>> THEN text
    ELSE ConcatShapes(Tail(shapes),
                      IF HasAttr(Head(shapes), "text")
                      THEN text \o Head(shapes).text \o <<" ">>
                      ELSE text)

extract_text_unstripped(slide) == ConcatShapes(slide, <<>>)

extract_text_from_slide(slide) == Strip(ConcatShapes(slide, <<>>))

(* Python truthiness of a str *)
Truthy(s) == s # <<>>

RECURSIVE SelectTextsReversed(_)
SelectTextsReversed(slides) ==
    IF slides = <<>> THEN <<>>
    ELSE IF Truthy(extract_text_from_slide(Head(slides)))
         THEN SelectTextsReversed(Tail(slides)) \o <<extract_text_from_slide(Head(slides))>>
         ELSE SelectTextsReversed(Tail(slides))

RECURSIVE SelectTexts(_)
SelectTexts(slides) ==
    IF slides = <<>> THEN <<>>
    ELSE IF Truthy(extract_text_from_slide(Head(slides)))
         THEN <<extract_text_from_slide(Head(slides))>> \o SelectTexts(Tail(slides))
         ELSE SelectTexts(Tail(slides))

(* Slides of the input documents: the slide at position k either has no   *)
(* extractable text, or carries its number as title next to a picture and *)
(* a body.                                                                 *)
Digit == <<"1", "2", "3", "4", "5", "6">>
BlankSlide == <<Picture, TextBox(<<" ">>)>>
TitledSlide(k) == <<TextBox(<<" ", Digit[k]>>), Picture, TextBox(<<"b">>)>>

(* What the parser makes of the file: its slides, or an error *)
Parsed(slides) == [parseable |-> TRUE, slides |-> slides]
Corrupt == [parseable |-> FALSE, slides |-> <<>>]

Layouts(most) == UNION {[1..n -> {"blank", "titled"}] : n \in 0..most}

Presentation(layout) ==
    [k \in 1..Len(layout) |->
        IF layout[k] = "blank" THEN BlankSlide ELSE TitledSlide(k)]

Documents(most) ==
    {Parsed(Presentation(layout)) : layout \in Layouts(most)} \cup {Corrupt}

(* The environment of the process, with and without the credential *)
Environments ==
    {[PATH |-> <<"/usr/bin">>],
     [PATH |-> <<"/usr/bin">>, OPENAI_API_KEY |-> <<"sk-test">>]}

(* os.getenv(name, "") is None: an unset variable reads as "" *)
GetenvWithDefaultIsNone(environ, name) == FALSE

(* os.getenv(name) is None *)
GetenvIsNone(environ, name) == name \notin DOMAIN environ

(* A path is a str whose fragments are names, "." and "/" *)
FilePaths == {<<"deck", ".", "pptx">>}

(* More paths: a dot in a directory and in the name, no extension, and a   *)
(* name that begins with a dot                                             *)
RerunPaths ==
    FilePaths \cup {<<"slides.d", "/", "talk", ".", "v2", ".", "pptx">>,
                    <<"notes">>,
                    <<".", "hidden">>}

Max(S) == CHOOSE k \in S : \A m \in S : m <= k

(* Index of the last separator of a path, 0 when it has none *)
LastSep(path) ==
    LET seps == {k \in 1..Len(path) : path[k] = "/"}
    IN  IF seps = {} THEN 0 ELSE Max(seps)

(* The dots of the last component that follow a fragment that is no dot *)
ExtensionDots(path) ==
    {k \in (LastSep(path) + 1)..Len(path) :
        /\ path[k] = "."
        /\ \E m \in (LastSep(path) + 1)..(k - 1) : path[m] # "."}

(* str.split('.')[0] and the rest, in place of os.path.splitext *)
splitextFirstDot(path) ==
    LET dots == {k \in 1..Len(path) : path[k] = "."}
        first == CHOOSE k \in dots : \A m \in dots : k <= m
    IN  IF dots = {} THEN <<path, <<>>>>
        ELSE <<SubSeq(path, 1, first - 1), SubSeq(path, first, Len(path))>>

(* os.path.splitext: <<root, extension>> *)
splitext(path) ==
    IF ExtensionDots(path) = {} THEN <<path, <<>>>>
    ELSE <<SubSeq(path, 1, Max(ExtensionDots(path)) - 1),
           SubSeq(path, Max(ExtensionDots(path)), Len(path))>>

OutputFileSamePath(path) == path

OutputFile(path) == splitext(path)[1] \o <<".", "json">>

(***************************************************************************)
(* json.dump(explanations, f, indent=4) and its inverse json.load.  A JSON *)
(* text is a sequence of tokens; a string token holds the str it encodes.  *)
(***************************************************************************)
Tok(kind, value) == [kind |-> kind, value |-> value]

RECURSIVE JsonItems(_)
JsonItems(array) ==
    <<Tok("newline", <<>>), Tok("indent", <<>>), Tok("string", Head(array))>>
    \o (IF Len(array) > 1 THEN <<Tok(",", <<>>)>> \o JsonItems(Tail(array)) ELSE <<>>)

JsonDump(array) ==
    IF array = <<>> THEN <<Tok("[", <<>>), Tok("]", <<>>)>>
    ELSE <<Tok("[", <<>>)>> \o JsonItems(array) \o <<Tok("newline", <<>>), Tok("]", <<>>)>>

IsJsonSpace(token) == token.kind \in {"newline", "indent"}
NotJsonSpace(token) == ~IsJsonSpace(token)

(* json.load: whether the text is a JSON array of strings, and the array *)
JsonLoad(text) ==
    LET tokens == SelectSeq(text, NotJsonSpace)
        inner == SubSeq(tokens, 2, Len(tokens) - 1)
        ok == /\ Len(tokens) >= 2
              /\ tokens[1].kind = "["
              /\ tokens[Len(tokens)].kind = "]"
              /\ Len(inner) = 0 \/ Len(inner) % 2 = 1
              /\ \A k \in 1..Len(inner) :
                    inner[k].kind = IF k % 2 = 1 THEN "string" ELSE ","
    IN  [ok |-> ok,
         array |-> IF ok THEN [j \in 1..((Len(inner) + 1) \div 2) |-> inner[2 * j - 1].value]
                   ELSE <<>>]

(***************************************************************************)
(* The remote collaborator.  A request either returns a response or raises.*)
(* The message of a response is a mapping (a test double) or the attribute *)
(* object the client library builds; only a mapping can be subscripted.    *)
(***************************************************************************)
Reply(text) == <<" ", "About:", " ">> \o text \o <<" ">>

Responses(text) ==
    {[choices |-> <<[message |-> [type |-> t, content |-> Reply(text)]]>>] :
        t \in {"dict", "ChatCompletionMessage"}}

Exc(class, description) == [class |-> class, str |-> description]

RemoteExceptions ==
    {Exc("RateLimitError", <<"rate limit">>),
     Exc("APIConnectionError", <<"connection error">>),
     Exc("APIError", <<"server error">>),
     Exc("ValueError", <<"boom">>)}

NotSubscriptable ==
    Exc("TypeError", <<"'ChatCompletionMessage' object is not subscriptable">>)

(* The classes an exception is an instance of *)
Ancestors(class) ==
    CASE class = "RateLimitError" -> {"RateLimitError", "APIError", "Exception"}
      [] class = "APIConnectionError" -> {"APIConnectionError", "APIError", "Exception"}
      [] class = "APIError" -> {"APIError", "Exception"}
      [] OTHER -> {class, "Exception"}

ExceptClausesNoCatchAll == <<"RateLimitError", "APIConnectionError", "APIError">>

ExceptClausesGenericFirst ==
    <<"APIError", "RateLimitError", "APIConnectionError", "Exception">>

(* The except clauses of get_explanation, in source order *)
ExceptClauses == <<"RateLimitError", "APIConnectionError", "APIError", "Exception">>

(* The first except clause that matches, "unhandled" when none does *)
Handler(exc) ==
    LET matching == {k \in 1..Len(ExceptClauses) : ExceptClauses[k] \in Ancestors(exc.class)}
    IN  IF matching = {} THEN "unhandled"
        ELSE ExceptClauses[CHOOSE k \in matching : \A m \in matching : k <= m]

(* response.choices[0].message['content'].strip(): a value or an exception *)
ResponseText(response) ==
    LET message == response.choices[1].message
    IN  IF message.type = "dict"
        THEN [raised |-> None, value |-> Strip(message.content)]
        ELSE [raised |-> NotSubscriptable, value |-> None]

Min(a, b) == IF a <= b THEN a ELSE b

NextDelayLinear(d) == Min(d + 1, DelayCeiling)

NextDelayTripling(d) == Min(d * 3, DelayCeiling)

NextDelay(d) == Min(d * 2, DelayCeiling)

PaceAfterZeroBased(n) == IF (n - 1) % PaceEvery = 0 THEN PaceLong ELSE PaceShort

PaceAfter(n) == IF n % PaceEvery = 0 THEN PaceLong ELSE PaceShort

(***************************************************************************)
(* State                                                                   *)
(***************************************************************************)
VARIABLES
    pc,              \* position of the process
    status,          \* the exit status in a set, empty while running
    environ,         \* the environment variables
    file_path,       \* the command line argument
    document,        \* what the parser finds at file_path
    all_texts,       \* process_presentation: the extracted texts
    i,               \* process_presentation: index of the loop
    explanations,    \* process_presentation: the collected list
    explanation,     \* the value get_explanation returned
    attempt,         \* get_explanation: iterations of the retry loop begun
    delay,           \* get_explanation: the backoff delay
    files,           \* the files on disk, as path and text
    writes,          \* history: every file written, in order
    calls,           \* history: the text of every call of get_explanation
    requests,        \* history: remote requests of the current call
    inflight,        \* history: the requests sent and not yet answered
    raised,          \* history: outcome of each request of the current call
    waits,           \* history: sleeps of the current call, in order
    returns,         \* history: text and value of every call that returned
    pacing           \* history: sleeps of process_presentation, in order

vars == <<pc, status, environ, file_path, document, all_texts, i,
          explanations, explanation, attempt, delay, files, writes, calls,
          requests, inflight, raised, waits, returns, pacing>>

env == <<environ, file_path, document>>
disk == <<files, writes>>
call == <<explanation, attempt, delay, requests, inflight, raised, waits>>

InitOn(paths, documents) ==
    /\ pc = "boot"
    /\ status = {}
    /\ environ \in Environments
    /\ file_path \in paths
    /\ document \in documents
    /\ all_texts = <<>>
    /\ i = 0
    /\ explanations = <<>>
    /\ explanation = <<>>
    /\ attempt = 0
    /\ delay = InitialDelay
    /\ files = {}
    /\ writes = <<>>
    /\ calls = <<>>
    /\ requests = 0
    /\ inflight = <<>>
    /\ raised = <<>>
    /\ waits = <<>>
    /\ returns = <<>>
    /\ pacing = <<>>

InitWith(documents) == InitOn(FilePaths, documents)

Init == InitWith(Documents(MaxSlides))

RerunInit == InitOn(RerunPaths, Documents(MaxRerunSlides))

LiveInit == InitWith(Documents(MaxLiveSlides))

(* Module level: the credential check *)
Boot ==
    /\ pc = "boot"
    /\ IF GetenvIsNone(environ, "OPENAI_API_KEY")
       THEN pc' = "exited" /\ status' = {1}
       ELSE pc' = "main" /\ status' = status
    /\ UNCHANGED <<env, all_texts, i, explanations, call, disk, calls, returns,
                   pacing>>

(* Extract, with the parser's error caught and no slides in its place *)
ExtractSwallowingErrors ==
    /\ pc = "main"
    /\ pc' = "loop"
    /\ all_texts' = SelectTexts(document.slides)
    /\ UNCHANGED <<status, env, i, explanations, call, disk, calls, returns, pacing>>

(* main calls process_presentation, which parses and extracts *)
Extract ==
    /\ pc = "main"
    /\ IF ~document.parseable
       THEN /\ pc' = "crashed"
            /\ status' = {1}
            /\ UNCHANGED all_texts
       ELSE /\ pc' = "loop"
            /\ status' = status
            /\ all_texts' = SelectTexts(document.slides)
    /\ UNCHANGED <<env, i, explanations, call, disk, calls, returns, pacing>>

(* The head of the loop of process_presentation: the next text is passed  *)
(* to get_explanation, or the list is returned.                           *)
NextSlide ==
    /\ pc = "loop"
    /\ i < Len(all_texts)
    /\ IF Truthy(all_texts[i + 1])
       THEN /\ pc' = "attempt"
            /\ calls' = Append(calls, all_texts[i + 1])
            /\ attempt' = 0
            /\ delay' = InitialDelay
            /\ explanation' = <<>>
            /\ requests' = 0
            /\ inflight' = <<>>
            /\ raised' = <<>>
            /\ waits' = <<>>
            /\ i' = i
       ELSE /\ pc' = "loop"
            /\ i' = i + 1
            /\ UNCHANGED <<calls, call>>
    /\ UNCHANGED <<status, env, all_texts, explanations, disk, returns, pacing>>

Return(value) ==
    /\ explanation' = value
    /\ returns' = Append(returns, [text |-> all_texts[i + 1], value |-> value])
    /\ pc' = "returned"

NoException == Exc("none", <<>>)

(* The request of one iteration is sent; get_explanation awaits the answer *)
Send ==
    /\ pc = "attempt"
    /\ attempt < retries
    /\ pc' = "awaiting"
    /\ requests' = requests + 1
    /\ inflight' = Append(inflight, all_texts[i + 1])
    /\ UNCHANGED <<status, env, all_texts, i, explanations, explanation, attempt,
                   delay, disk, calls, raised, waits, returns, pacing>>

(* The rest of one iteration of the retry loop of get_explanation, from   *)
(* the answer to the request                                              *)
Iteration(outcome) ==
    LET got == IF outcome.raised = None
               THEN ResponseText(outcome.response)
               ELSE [raised |-> outcome.raised, value |-> None]
        clause == IF got.raised = None THEN "none" ELSE Handler(got.raised)
    IN  /\ inflight' = Tail(inflight)
        /\ raised' = Append(raised, IF outcome.raised = None THEN NoException
                                                              ELSE outcome.raised)
        /\ CASE clause = "none" ->
                  /\ Return(got.value)
                  /\ UNCHANGED <<attempt, delay, waits, status>>
             [] clause = "RateLimitError" ->
                  /\ waits' = Append(waits, RateLimitWait)
                  /\ attempt' = attempt + 1
                  /\ pc' = "attempt"
                  /\ UNCHANGED <<explanation, delay, returns, status>>
             [] clause \in {"APIConnectionError", "APIError"} ->
                  /\ waits' = Append(waits, delay)
                  /\ delay' = NextDelay(delay)
                  /\ attempt' = attempt + 1
                  /\ pc' = "attempt"
                  /\ UNCHANGED <<explanation, returns, status>>
             [] clause = "Exception" ->
                  /\ Return(ErrorMessage(got.raised.str))
                  /\ UNCHANGED <<attempt, delay, waits, status>>
             [] OTHER ->
                  /\ pc' = "crashed"
                  /\ status' = {1}
                  /\ UNCHANGED <<explanation, attempt, delay, waits, returns>>

RemoteOutcomes(text) ==
    {[raised |-> None, response |-> r] : r \in Responses(text)}
    \cup {[raised |-> e, response |-> None] : e \in RemoteExceptions}

Attempt ==
    /\ pc = "awaiting"
    /\ \E outcome \in RemoteOutcomes(all_texts[i + 1]) : Iteration(outcome)
    /\ UNCHANGED <<env, all_texts, i, explanations, disk, calls, requests,
                   pacing>>

(* The retry loop ends without a return *)
Exhausted ==
    /\ pc = "attempt"
    /\ attempt >= retries
    /\ Return(ExhaustedMessage)
    /\ UNCHANGED <<status, env, all_texts, i, explanations, attempt, delay,
                   disk, calls, requests, inflight, raised, waits, pacing>>

(* Collect, saving the list after every append *)
CollectAndSave ==
    /\ pc = "returned"
    /\ explanations' = Append(explanations, explanation)
    /\ pc' = "pace"
    /\ attempt' = 0
    /\ delay' = InitialDelay
    /\ requests' = 0
    /\ raised' = <<>>
    /\ waits' = <<>>
    /\ files' = {f \in files : f.path # OutputFile(file_path)}
                 \cup {[path |-> OutputFile(file_path), text |-> JsonDump(explanations')]}
    /\ writes' = Append(writes, [path |-> OutputFile(file_path),
                                 text |-> JsonDump(explanations')])
    /\ UNCHANGED <<status, env, all_texts, i, explanation, inflight, calls, returns,
                   pacing>>

(* explanations.append(explanation) *)
Collect ==
    /\ pc = "returned"
    /\ explanations' = Append(explanations, explanation)
    /\ pc' = "pace"
    /\ attempt' = 0
    /\ delay' = InitialDelay
    /\ requests' = 0
    /\ raised' = <<>>
    /\ waits' = <<>>
    /\ UNCHANGED inflight
    /\ UNCHANGED <<status, env, all_texts, i, explanation, disk, calls, returns,
                   pacing>>

PaceUnlessExhausted ==
    /\ pc = "pace"
    /\ pacing' = IF explanation = ExhaustedMessage
                 THEN pacing
                 ELSE Append(pacing, PaceAfter(i + 1))
    /\ i' = i + 1
    /\ pc' = "loop"
    /\ UNCHANGED <<status, env, all_texts, explanations, call, disk, calls,
                   returns>>

(* The sleep that ends the body of the loop *)
Pace ==
    /\ pc = "pace"
    /\ pacing' = Append(pacing, PaceAfter(i + 1))
    /\ i' = i + 1
    /\ pc' = "loop"
    /\ UNCHANGED <<status, env, all_texts, explanations, call, disk, calls,
                   returns>>

(* process_presentation returns; main saves and exits *)
Save ==
    /\ pc = "loop"
    /\ i >= Len(all_texts)
    /\ files' = {f \in files : f.path # OutputFile(file_path)}
                 \cup {[path |-> OutputFile(file_path), text |-> JsonDump(explanations)]}
    /\ writes' = Append(writes, [path |-> OutputFile(file_path),
                                 text |-> JsonDump(explanations)])
    /\ pc' = "done"
    /\ status' = {0}
    /\ UNCHANGED <<env, all_texts, i, explanations, call, calls, returns, pacing>>

Next ==
    \/ Boot
    \/ Extract
    \/ NextSlide
    \/ Send
    \/ Attempt
    \/ Exhausted
    \/ Collect
    \/ Pace
    \/ Save

Spec == Init /\ [][Next]_vars

(* The program is started again with the same arguments and environment,  *)
(* on the disk the earlier run left                                        *)
Rerun ==
    /\ pc = "done"
    /\ Len(writes) < Len(Runs)
    /\ pc' = "boot"
    /\ status' = {}
    /\ all_texts' = <<>>
    /\ i' = 0
    /\ explanations' = <<>>
    /\ explanation' = <<>>
    /\ attempt' = 0
    /\ delay' = InitialDelay
    /\ calls' = <<>>
    /\ requests' = 0
    /\ inflight' = <<>>
    /\ raised' = <<>>
    /\ waits' = <<>>
    /\ returns' = <<>>
    /\ pacing' = <<>>
    /\ UNCHANGED <<env, disk>>

RerunNext ==
    \/ Next
    \/ Rerun

RerunSpec == RerunInit /\ [][RerunNext]_vars

(* The event loop runs every step that is ready: a request is answered or *)
(* fails, a sleep ends.                                                    *)
FairSpec == LiveInit /\ [][Next]_vars /\ WF_vars(Next)

TypeOK ==
    /\ pc \in {"boot", "exited", "main", "crashed", "loop", "attempt",
                "awaiting", "returned", "pace", "done"}
    /\ status \subseteq {0, 1}
    /\ attempt \in 0..retries
    /\ requests \in 0..retries
    /\ i \in 0..MaxSlides
    /\ Len(all_texts) <= MaxSlides

(***************************************************************************)
(* Vocabulary of the properties                                            *)
(***************************************************************************)
RECURSIVE Pow2(_)
Pow2(n) == IF n = 0 THEN 1 ELSE 2 * Pow2(n - 1)

RaisedClasses == [k \in 1..Len(raised) |-> raised[k].class]

Retryable == {"RateLimitError", "APIConnectionError", "APIError"}
BackedOff == {"APIConnectionError", "APIError"}

(* Number of connection and generic API failures among the first k requests *)
BackoffsUpTo(k) == Cardinality({m \in 1..k : raised[m].class \in BackedOff})

LastRaised == raised[Len(raised)]

(* The k-th wait follows the k-th request; it lies between two attempts   *)
(* when a later request was issued                                        *)
WaitsBetweenAttempts ==
    SubSeq(waits, 1, IF Len(waits) < requests THEN Len(waits) ELSE requests - 1)

(* The seconds a sequence of waits adds up to *)
RECURSIVE SumSeq(_)
SumSeq(s) == IF s = <<>> THEN 0 ELSE Head(s) + SumSeq(Tail(s))

(* The requests of the present call that a retryable failure ended *)
RetryableFailures == {k \in 1..Len(raised) : raised[k].class \in Retryable}

CredentialPresent == "OPENAI_API_KEY" \in DOMAIN environ

(* A slide has text when some shape with a text attribute holds a         *)
(* character that is not whitespace                                       *)
SlideHasText(slide) ==
    \E s \in 1..Len(slide) :
        /\ "text" \in DOMAIN slide[s]
        /\ \E c \in 1..Len(slide[s].text) : slide[s].text[c] # " "

TextSlides == {k \in 1..Len(document.slides) : SlideHasText(document.slides[k])}

(* Positions in the document of the slides that have text, from the k-th  *)
(* slide on, in order; the position of the j-th slide that has text       *)
RECURSIVE TextSlidesFrom(_)
TextSlidesFrom(k) ==
    IF k > Len(document.slides) THEN <<>>
    ELSE (IF SlideHasText(document.slides[k]) THEN <<k>> ELSE <<>>)
         \o TextSlidesFrom(k + 1)

NthTextSlide(j) == TextSlidesFrom(1)[j]

(* The text of a slide made as TitledSlide(k), trimmed *)
TitledText(k) == <<Digit[k], " ", "b">>

(* The trimmed reply of the remote service to a text *)
TrimmedReply(text) == <<"About:", " ">> \o text

(***************************************************************************)
(* C1: get_explanation always returns a string and never raises: whatever *)
(* each request does, the process is never ended by an exception leaving  *)
(* get_explanation, every call that began comes to return, and what it    *)
(* returns is a string.                                                    *)
(***************************************************************************)
C1_AlwaysReturnsString ==
    /\ [](pc = "crashed" => ~document.parseable)
    /\ [](pc = "returned" => explanation \in Seq(STRING))
    /\ [](pc = "returned" => /\ Len(returns) = Len(calls)
                             /\ returns[Len(returns)].value = explanation)
    /\ ((pc = "attempt") ~> (pc = "returned"))

C1_Witness ==
    /\ pc = "returned"
    /\ RaisedClasses = <<"RateLimitError", "APIError", "ValueError">>

(***************************************************************************)
(* C2 as stated: with a connection error on every request the fallback    *)
(* is returned after exactly 5 attempts, and the waits that lie between    *)
(* attempts are 1, 2, 4, 8, 16 seconds.                                    *)
(***************************************************************************)
C2_WaitsBetweenAttempts ==
    (pc = "returned" /\ raised # <<>>
        /\ \A k \in 1..Len(raised) : raised[k].class = "APIConnectionError")
    => /\ explanation = ExhaustedMessage
       /\ requests = 5
       /\ WaitsBetweenAttempts = <<1, 2, 4, 8, 16>>

(***************************************************************************)
(* C2 amended: with a connection error on every request the fallback is   *)
(* returned after exactly 5 attempts and 5 waits of 1, 2, 4, 8, 16         *)
(* seconds, one after each failed attempt: the first four lie between      *)
(* attempts, the last follows the 5th attempt and precedes the return.     *)
(***************************************************************************)
C2_RetryExhaustion ==
    /\ (pc = "returned" /\ raised # <<>>
          /\ \A k \in 1..Len(raised) : raised[k].class = "APIConnectionError")
       => /\ explanation = ExhaustedMessage
          /\ requests = 5
          /\ waits = <<1, 2, 4, 8, 16>>
          /\ WaitsBetweenAttempts = <<1, 2, 4, 8>>
    /\ (pc = "attempt"
          /\ \A k \in 1..Len(raised) : raised[k].class = "APIConnectionError")
       => /\ requests = Len(raised)
          /\ waits = [k \in 1..requests |-> Pow2(k - 1)]

C2_Witness ==
    /\ pc = "returned"
    /\ RaisedClasses = [k \in 1..5 |-> "APIConnectionError"]
    /\ explanation = ExhaustedMessage

(***************************************************************************)
(* C3: when the first k requests raise a rate-limit error and the next    *)
(* one succeeds, get_explanation returns the trimmed text of the response, *)
(* having waited k times 60 seconds, with the backoff delay untouched and  *)
(* no request after the success.                                           *)
(***************************************************************************)
C3_RateLimitThenSuccess ==
    (pc = "returned" /\ raised # <<>>
        /\ LastRaised = NoException
        /\ \A k \in 1..(Len(raised) - 1) : raised[k].class = "RateLimitError")
    => /\ explanation = TrimmedReply(calls[Len(calls)])
       /\ waits = [k \in 1..(Len(raised) - 1) |-> 60]
       /\ delay = 1
       /\ requests = Len(raised)

(***************************************************************************)
(* C4: no pause after the final slide: once every extracted slide has its *)
(* explanation, the pacing sleeps number one less than the slides, and     *)
(* with 4 slides they are 20, 20, 60.                                      *)
(***************************************************************************)
C4_NoPauseAfterFinalSlide ==
    (pc = "done" /\ all_texts # <<>>)
    => /\ Len(pacing) = Len(all_texts) - 1
       /\ (Len(all_texts) = 4 => pacing = <<20, 20, 60>>)

(***************************************************************************)
(* C5: between the explanation of the n-th extracted slide and the request *)
(* for the next one the process sleeps 60 seconds when n is a multiple of  *)
(* 3 and 20 seconds otherwise, and the next request is not issued before   *)
(* that sleep.                                                             *)
(***************************************************************************)
C5_PacingBetweenRequests ==
    /\ Len(calls) <= Len(pacing) + 1
    /\ \A n \in 1..Len(pacing) :
          pacing[n] = IF n \in {3, 6, 9} THEN 60 ELSE 20
    /\ (pc \in {"attempt", "returned"} => Len(pacing) = Len(calls) - 1)

C5_Witness ==
    /\ pc = "attempt"
    /\ Len(calls) = 4
    /\ pacing = <<20, 20, 60>>

(***************************************************************************)
(* C6: the list process_presentation returns has one element per slide    *)
(* with text, and its j-th element is what get_explanation returned for    *)
(* the j-th such slide of the document; slides without text give nothing.  *)
(***************************************************************************)
C6_OnePerTextSlideInOrder ==
    pc = "done"
    => /\ Len(explanations) = Cardinality(TextSlides)
       /\ Len(returns) = Cardinality(TextSlides)
       /\ \A j \in 1..Len(explanations) :
             /\ returns[j].text = TitledText(NthTextSlide(j))
             /\ explanations[j] = returns[j].value

C6_Witness ==
    /\ pc = "done"
    /\ Len(document.slides) = 4
    /\ TextSlides = {2, 4}
    /\ explanations = <<TrimmedReply(TitledText(2)), ExhaustedMessage>>

(***************************************************************************)
(* C7: an exception of the remote call that is no rate-limit, connection   *)
(* or API error makes get_explanation return at once a fallback string     *)
(* that embeds the exception's description: no wait for it, no request     *)
(* after it, on whichever attempt it comes.                                *)
(***************************************************************************)
C7_GenericExceptionShortCircuit ==
    /\ \A k \in 1..Len(raised) :
          raised[k].class = "ValueError" => (k = Len(raised) /\ pc = "returned")
    /\ (pc = "returned" /\ raised # <<>> /\ LastRaised.class = "ValueError")
       => /\ explanation = <<"Error processing slide:", " ", "boom">>
          /\ requests = Len(raised)
          /\ Len(waits) = Len(raised) - 1

C7_Witness ==
    /\ pc = "returned"
    /\ RaisedClasses = <<"APIConnectionError", "RateLimitError", "ValueError">>

(***************************************************************************)
(* C8: rate-limit, connection and API failures count toward one budget of  *)
(* 5 attempts: a call never issues more than 5 requests, and after the 5th *)
(* such failure, of whatever mix, it returns the one fixed fallback.       *)
(***************************************************************************)
C8_SharedAttemptBudget ==
    /\ requests <= 5
    /\ Len(raised) + Len(inflight) = requests
    /\ (pc = "attempt" =>
          attempt = Cardinality({k \in 1..Len(raised) : raised[k].class \in Retryable}))
    /\ (pc = "returned" /\ Len(raised) = 5 /\ LastRaised.class \in Retryable)
       => explanation = ExhaustedMessage
    /\ (pc = "returned" /\ explanation = ExhaustedMessage)
       => (Len(raised) = 5 /\ \A k \in 1..5 : raised[k].class \in Retryable)

C8_Witness ==
    /\ pc = "returned"
    /\ explanation = ExhaustedMessage
    /\ RaisedClasses = <<"RateLimitError", "APIConnectionError", "RateLimitError",
                         "APIError", "RateLimitError">>

(***************************************************************************)
(* C9: in any interleaving of failures within one call a rate-limit        *)
(* failure waits exactly 60 seconds and leaves delay as it was, and the    *)
(* j-th connection or API failure waits min(2^(j-1), 60) seconds; delay    *)
(* starts at 1 and doubles only after such a failure.                      *)
(***************************************************************************)
C9_RateLimitKeepsBackoffState ==
    /\ \A k \in 1..Len(waits) :
          waits[k] = IF raised[k].class = "RateLimitError" THEN 60
                     ELSE Min(Pow2(BackoffsUpTo(k) - 1), 60)
    /\ (pc \in {"attempt", "returned"} =>
          delay = Min(Pow2(BackoffsUpTo(Len(raised))), 60))

C9_Witness ==
    /\ pc = "attempt"
    /\ RaisedClasses = <<"APIConnectionError", "RateLimitError", "APIError",
                         "RateLimitError">>
    /\ waits = <<1, 60, 2, 60>>
    /\ delay = 4

(***************************************************************************)
(* C10: with the credential present and a parseable document the run       *)
(* always ends with the file <input base name>.json written, holding one   *)
(* string per extracted slide, whatever the remote service does.           *)
(***************************************************************************)
C10_RunEndsWithOutput ==
    (pc = "boot" /\ CredentialPresent /\ document.parseable)
    ~> (/\ pc = "done"
        /\ \E f \in files :
              /\ f.path = <<"deck", ".", "json">>
              /\ JsonLoad(f.text).ok
              /\ Len(JsonLoad(f.text).array) = Cardinality(TextSlides)
              /\ \A j \in 1..Len(JsonLoad(f.text).array) :
                    JsonLoad(f.text).array[j] \in Seq(STRING))

C10_Witness ==
    /\ pc = "done"
    /\ \E f \in files :
          /\ f.path = <<"deck", ".", "json">>
          /\ JsonLoad(f.text).array = <<ExhaustedMessage,
                         <<"Error processing slide:", " ", "boom">>,
                         TrimmedReply(TitledText(3))>>

(***************************************************************************)
(* C11: requests go out one at a time and in slide order: never more than  *)
(* one request is unanswered, it is for the slide of the current call, a   *)
(* call of get_explanation begins only when every earlier call has         *)
(* returned, and the texts passed to get_explanation are the texts of the  *)
(* slides with text, each once, in document order.                         *)
(***************************************************************************)
C11_OneRequestAtATimeInOrder ==
    /\ Len(inflight) <= 1
    /\ (inflight # <<>> => pc = "awaiting" /\ inflight[1] = calls[Len(calls)])
    /\ Len(calls) <= Len(returns) + 1
    /\ (pc \in {"attempt", "awaiting"} => Len(returns) = Len(calls) - 1)
    /\ LET order == TextSlidesFrom(1)
       IN  /\ Len(calls) <= Len(order)
           /\ \A j \in 1..Len(calls) : calls[j] = TitledText(order[j])
           /\ (pc = "done" => Len(calls) = Len(order))

C11_Witness ==
    /\ pc = "awaiting"
    /\ TextSlides = {1, 3, 4}
    /\ calls = <<TitledText(1), TitledText(3)>>
    /\ requests = 3
    /\ Len(returns) = 1

(***************************************************************************)
(* C12: the output file is written exactly once, at the end of the run,    *)
(* after the explanation of the last slide is collected: in every state    *)
(* before the end, where an interrupted run would stop, nothing has been   *)
(* written.                                                                *)
(***************************************************************************)
C12_WrittenOnceAtTheEnd ==
    /\ (pc # "done" => writes = <<>> /\ files = {})
    /\ (pc = "done" =>
          /\ Len(writes) = 1
          /\ files = {writes[1]}
          /\ Len(explanations) = Cardinality(TextSlides)
          /\ JsonLoad(writes[1].text).array = explanations)

C12_Witness ==
    /\ pc = "done"
    /\ Len(writes) = 1
    /\ Len(JsonLoad(writes[1].text).array) = 3

(***************************************************************************)
(* C13: without the credential in the environment the process exits with   *)
(* status 1 before any work: it never gets past the check, no document is  *)
(* parsed, no request is sent and no file is written; and it is only then  *)
(* that the check ends the process.                                        *)
(***************************************************************************)
C13_MissingCredentialIsFatal ==
    /\ ~CredentialPresent =>
          /\ pc \in {"boot", "exited"}
          /\ (pc = "exited" => status = {1})
          /\ all_texts = <<>> /\ calls = <<>>
          /\ requests = 0 /\ inflight = <<>>
          /\ writes = <<>> /\ files = {}
    /\ (pc = "exited" => ~CredentialPresent)

C13_Witness ==
    /\ pc = "exited"
    /\ status = {1}
    /\ document.parseable
    /\ TextSlides = {1, 2}

ExpectedOutput(path) ==
    CASE path = <<"deck", ".", "pptx">> -> <<"deck", ".", "json">>
      [] path = <<"slides.d", "/", "talk", ".", "v2", ".", "pptx">> ->
            <<"slides.d", "/", "talk", ".", "v2", ".", "json">>
      [] path = <<"notes">> -> <<"notes", ".", "json">>
      [] path = <<".", "hidden">> -> <<".", "hidden", ".", "json">>

C15_SameOutputFileEveryRun ==
    /\ \A k \in 1..Len(writes) :
          /\ writes[k].path = ExpectedOutput(file_path)
          /\ JsonLoad(writes[k].text).ok
          /\ \A j \in 1..Len(JsonLoad(writes[k].text).array) :
                JsonLoad(writes[k].text).array[j] \in Seq(STRING)
    /\ files = IF writes = <<>> THEN {} ELSE {writes[Len(writes)]}
    /\ (pc = "done" =>
          /\ writes # <<>>
          /\ JsonLoad(writes[Len(writes)].text).array = explanations)

C15_Witness ==
    /\ pc = "done"
    /\ file_path = <<"slides.d", "/", "talk", ".", "v2", ".", "pptx">>
    /\ Len(writes) = 2
    /\ JsonLoad(writes[1].text).array = <<ExhaustedMessage>>
    /\ JsonLoad(writes[2].text).array = <<TrimmedReply(TitledText(1))>>
    /\ files = {writes[2]}

(***************************************************************************)
(* C16: every retryable failure of a request is followed by its wait, the  *)
(* failure of the 5th and last attempt included: the fallback for an       *)
(* exhausted budget is returned only after 5 requests and 5 waits, one per *)
(* attempt, with no request after the last wait, and the waits of one call *)
(* add up to at most 300 seconds, reached by 5 rate-limit failures.        *)
(***************************************************************************)
C16_EveryRetryableFailureWaits ==
    /\ (pc # "awaiting" => Len(waits) = Cardinality(RetryableFailures))
    /\ (pc = "awaiting" => Len(waits) = requests - 1)
    /\ \A k \in 1..Len(waits) :
          /\ raised[k].class \in Retryable
          /\ waits[k] >= 1
    /\ (pc = "returned" /\ explanation = ExhaustedMessage)
       => /\ requests = 5
          /\ Len(waits) = 5
          /\ RetryableFailures = 1..5
          /\ inflight = <<>>
    /\ (pc = "returned" /\ Len(waits) = 5 => explanation = ExhaustedMessage)
    /\ Len(waits) <= 5
    /\ SumSeq(waits) <= 300
    /\ (SumSeq(waits) = 300
          => RaisedClasses = [k \in 1..5 |-> "RateLimitError"])

C16_Witness ==
    /\ pc = "returned"
    /\ explanation = ExhaustedMessage
    /\ RaisedClasses = [k \in 1..5 |-> "RateLimitError"]
    /\ requests = 5
    /\ SumSeq(waits) = 300

(***************************************************************************)
(* C17: with the budget of 5 attempts the ceiling of 60 seconds never      *)
(* binds: delay is always one of 1, 2, 4, 8, 16, 32, the power of two of   *)
(* the connection and generic API failures so far, it is at most 16 while  *)
(* a request can still be made, and every backoff wait performed is at     *)
(* most 16 seconds.                                                        *)
(***************************************************************************)
C17_CeilingNeverBinds ==
    /\ delay \in {1, 2, 4, 8, 16, 32}
    /\ delay = Pow2(BackoffsUpTo(Len(raised)))
    /\ (pc \in {"attempt", "awaiting"} /\ attempt < 5 => delay <= 16)
    /\ \A k \in 1..Len(waits) :
          raised[k].class \in BackedOff
          => /\ waits[k] <= 16
             /\ waits[k] = Pow2(BackoffsUpTo(k) - 1)

C17_Witness ==
    /\ pc = "returned"
    /\ RaisedClasses = <<"APIError", "APIConnectionError", "APIError",
                         "APIConnectionError", "APIError">>
    /\ delay = 32
    /\ waits = <<1, 2, 4, 8, 16>>

(***************************************************************************)
(* C18: the pause after a slide does not depend on what get_explanation    *)
(* returned for it: every slide explained is followed by one pause, after  *)
(* a fallback as after a success, of 60 seconds after every third slide    *)
(* with text and of 20 seconds otherwise; slides without text are not      *)
(* counted and are followed by no pause.                                   *)
(***************************************************************************)
C18_PacingIgnoresOutcome ==
    /\ Len(pacing) = Len(explanations) - (IF pc = "pace" THEN 1 ELSE 0)
    /\ Len(explanations) = Len(returns) - (IF pc = "returned" THEN 1 ELSE 0)
    /\ LET order == TextSlidesFrom(1)
       IN  \A n \in 1..Len(pacing) :
              /\ returns[n].text = TitledText(order[n])
              /\ pacing[n] = IF n % 3 = 0 THEN 60 ELSE 20
    /\ \A n \in 1..Len(pacing) : \A m \in 1..Len(pacing) :
          n % 3 = m % 3 => pacing[n] = pacing[m]
    /\ (pc = "done" => Len(pacing) = Cardinality(TextSlides))

C18_Witness ==
    /\ pc = "loop"
    /\ TextSlides = {2, 3, 4}
    /\ Len(returns) = 3
    /\ returns[1].value = ErrorMessage(<<"boom">>)
    /\ returns[2].value = TrimmedReply(TitledText(3))
    /\ returns[3].value = ExhaustedMessage
    /\ pacing = <<20, 20, 60>>

====
